---- MODULE Spec2Model ----
(***************************************************************************)
(* Model of the owning pointer container PointerArray<T> of                *)
(* Project9/1.cpp: a std::vector<T*> whose elements are deleted by clear() *)
(* and by the destructor.  Two containers, A and B, are driven by a caller *)
(* that may call every public member with every argument the interface     *)
(* admits.  The heap is a set of instance identities 1..MaxObj; an         *)
(* identity is never reused.                                               *)
(***************************************************************************)
EXTENDS Integers, Sequences, FiniteSets, TLC

\* ---------------------------------------------------------------- bounds
MaxObj == 2          \* instances allocated in one behaviour
MaxAlias == 1        \* calls of add with a pointer some container already stores

\* ------------------------------------------------------------- constants
NULL == 0            \* nullptr
BigIndex == 10       \* the out-of-range index main() uses

Containers == {"A", "B"}
Obj == 1..MaxObj
MaxLen == MaxObj + MaxAlias      \* no vector grows longer than this
Indices == (0..MaxObj) \cup {BigIndex}

VARIABLES
    pointers,   \* pointers[c]: std::vector<T*> pointers of container c
    reserved,   \* reserved[c]: capacity reserve() guaranteed to c's storage
    alive,      \* alive[c]: c is constructed and not yet destroyed
    next,       \* identity the next successful operator new returns
    dels,       \* dels[o]: times delete was applied to o; 2 stands for twice or more
    held,       \* instances the caller allocated and still owns
    aliases,    \* calls of add so far whose pointer was already stored
    owned,      \* instances some container has taken ownership of, ever
    appended,   \* appended[c]: instances appended to c's storage since it was last emptied
    last        \* the last call: operation, container, argument (for emplace the
                \* size before the call), outcome, returned pointer, what() text

vars == <<pointers, reserved, alive, next, dels, held, aliases, owned, appended, last>>

\* ----------------------------------------------------------- pure helpers
Range(v) == {v[k] : k \in 1..Len(v)}

Count(v, o) == Cardinality({k \in 1..Len(v) : v[k] = o})

Allocated(o) == o \in Obj /\ o < next

Live(o) == Allocated(o) /\ dels[o] = 0

\* std::to_string(size_t): the decimal digits, most significant first
Digit(d) == <<"0", "1", "2", "3", "4", "5", "6", "7", "8", "9">>[d + 1]

RECURSIVE to_string(_)
to_string(n) ==
    IF n < 10 THEN <<Digit(n)>>
    ELSE Append(to_string(n \div 10), Digit(n % 10))

\* the what() text of the out_of_range thrown by operator[]: two fixed
\* pieces of text (Russian in the source, rendered in English here) around
\* to_string(index) and to_string(pointers.size())
OutOfRangeMessage(index, size) ==
    <<"Index ">> \o to_string(index)
        \o <<" is out of bounds of the array of size ">> \o to_string(size)

\* std::vector::size / empty
size(c) == Len(pointers[c])

empty(c) == pointers[c] = <<>>

\* a push that inserts at the front instead of the end
push_front(v, p) == <<p>> \o v

\* std::vector::push_back on storage with room, or after a successful growth
push_back(v, p) == Append(v, p)

\* push_back may have to allocate larger storage, and that allocation may
\* fail.  How far the storage grows is the implementation's choice, so the
\* only capacity known is the one reserve() guaranteed.
MayGrow(c) == size(c) >= reserved[c]

\* the delete loop of clear(): one delete per stored pointer.  A delete of an
\* instance that is already deleted is undefined behaviour; the model counts
\* it and lets the program go on, and a program that stops there is a
\* behaviour that stutters from that state on.
DeleteAll(d, v) ==
    [o \in Obj |-> IF d[o] + Count(v, o) > 1 THEN 2 ELSE d[o] + Count(v, o)]

\* operator[] whose bound check lets index = size through
SubscriptResultOffByOne(v, index) ==
    IF index > Len(v)
    THEN [res |-> "out_of_range", ret |-> NULL,
          msg |-> OutOfRangeMessage(index, Len(v))]
    ELSE [res |-> "ok", ret |-> IF index < Len(v) THEN v[index + 1] ELSE NULL,
          msg |-> <<>>]

\* result of operator[] on the vector v
SubscriptResult(v, index) ==
    IF index >= Len(v)
    THEN [res |-> "out_of_range", ret |-> NULL,
          msg |-> OutOfRangeMessage(index, Len(v))]
    ELSE [res |-> "ok", ret |-> v[index + 1], msg |-> <<>>]

\* get() whose bound check rejects the last valid index
GetResultOffByOne(v, index) ==
    IF index + 1 >= Len(v) THEN NULL ELSE v[index + 1]

\* result of get() on the vector v
GetResult(v, index) ==
    IF index >= Len(v) THEN NULL ELSE v[index + 1]

Call(op, c, arg, res, ret, msg) ==
    [op |-> op, c |-> c, arg |-> arg, res |-> res, ret |-> ret, msg |-> msg,
     again |-> (op = "clear" /\ last.op = "clear" /\ last.c = c)]

\* pointers a caller can pass to add: nullptr, an instance it allocated,
\* or a pointer it read from a container with get()
AddInputs ==
    {NULL} \cup held
        \cup UNION {Range(pointers[c]) : c \in {x \in Containers : alive[x]}}

\* ------------------------------------------------------------------ Init
Init ==
    /\ pointers = [c \in Containers |-> <<>>]
    /\ reserved = [c \in Containers |-> 0]
    /\ alive = [c \in Containers |-> c = "A"]
    /\ next = 1
    /\ dels = [o \in Obj |-> 0]
    /\ held = {}
    /\ aliases = 0
    /\ owned = {}
    /\ appended = [c \in Containers |-> <<>>]
    /\ last = [op |-> "construct", c |-> "A", arg |-> 0, res |-> "ok",
               ret |-> NULL, msg |-> <<>>, again |-> FALSE]

\* --------------------------------------------------------------- actions
\* PointerArray(): a new empty container
Construct(c) ==
    /\ ~alive[c]
    /\ alive' = [alive EXCEPT ![c] = TRUE]
    /\ pointers' = [pointers EXCEPT ![c] = <<>>]
    /\ reserved' = [reserved EXCEPT ![c] = 0]
    /\ appended' = [appended EXCEPT ![c] = <<>>]
    /\ last' = Call("construct", c, 0, "ok", NULL, <<>>)
    /\ UNCHANGED <<next, dels, held, aliases, owned>>

\* PointerArray(size_t size): reserve(size); the reservation may fail
ConstructReserve(c, n) ==
    /\ ~alive[c]
    /\ \/ /\ alive' = [alive EXCEPT ![c] = TRUE]
          /\ pointers' = [pointers EXCEPT ![c] = <<>>]
          /\ reserved' = [reserved EXCEPT ![c] = n]
          /\ appended' = [appended EXCEPT ![c] = <<>>]
          /\ last' = Call("construct", c, n, "ok", NULL, <<>>)
       \/ /\ n > 0
          /\ last' = Call("construct", c, n, "bad_alloc", NULL, <<>>)
          /\ UNCHANGED <<alive, pointers, reserved, appended>>
    /\ UNCHANGED <<next, dels, held, aliases, owned>>

\* a caller's own `new T`, the instance it will hand to add
CallerNew ==
    /\ next <= MaxObj
    /\ next' = next + 1
    /\ held' = held \cup {next}
    /\ last' = Call("new", "A", 0, "ok", next, <<>>)
    /\ UNCHANGED <<pointers, reserved, alive, dels, aliases, owned, appended>>

\* add without the null check
addNoNullCheck(c, ptr) ==
    /\ alive[c]
    /\ ptr \in AddInputs
    /\ (ptr # NULL /\ ptr \notin held) => aliases < MaxAlias
    /\ size(c) < MaxLen
    /\ pointers' = [pointers EXCEPT ![c] = push_back(@, ptr)]
    /\ held' = held \ {ptr}
    /\ aliases' = IF ptr = NULL \/ ptr \in held THEN aliases ELSE aliases + 1
    /\ owned' = IF ptr = NULL THEN owned ELSE owned \cup {ptr}
    /\ appended' = [appended EXCEPT ![c] = Append(@, ptr)]
    /\ last' = Call("add", c, ptr, "ok", NULL, <<>>)
    /\ UNCHANGED <<reserved, alive, next, dels>>

\* void add(T* ptr)
add(c, ptr) ==
    /\ alive[c]
    /\ ptr \in AddInputs
    /\ IF ptr = NULL
       THEN /\ last' = Call("add", c, ptr, "invalid_argument", NULL, <<>>)
            /\ UNCHANGED <<pointers, held, aliases, owned, appended>>
       ELSE /\ ptr \notin held => aliases < MaxAlias
            /\ \/ /\ pointers' = [pointers EXCEPT ![c] = push_back(@, ptr)]
                  /\ held' = held \ {ptr}
                  /\ aliases' = IF ptr \in held THEN aliases ELSE aliases + 1
                  /\ owned' = owned \cup {ptr}
                  /\ appended' = [appended EXCEPT ![c] = Append(@, ptr)]
                  /\ last' = Call("add", c, ptr, "ok", NULL, <<>>)
               \/ \* push_back has to grow the storage and the allocation fails
                  /\ MayGrow(c)
                  /\ last' = Call("add", c, ptr, "bad_alloc", NULL, <<>>)
                  /\ UNCHANGED <<pointers, held, aliases, owned, appended>>
    /\ UNCHANGED <<reserved, alive, next, dels>>

\* void emplace(Args&&...): pointers.push_back(new T(args...))
emplace(c) ==
    /\ alive[c]
    /\ next <= MaxObj
    /\ \/ \* new T(...) and push_back both succeed
          /\ next' = next + 1
          /\ pointers' = [pointers EXCEPT ![c] = push_back(@, next)]
          /\ owned' = owned \cup {next}
          /\ appended' = [appended EXCEPT ![c] = Append(@, next)]
          /\ last' = Call("emplace", c, size(c), "ok", next, <<>>)
       \/ \* operator new fails, or T's constructor throws and the
          \* new-expression releases the memory: no instance exists
          /\ \E r \in {"bad_alloc", "ctor_threw"} :
                last' = Call("emplace", c, size(c), r, NULL, <<>>)
          /\ UNCHANGED <<next, pointers, owned, appended>>
       \/ \* new T(...) succeeded, then push_back has to grow the storage
          \* and the allocation fails: the instance is referenced by nobody
          /\ MayGrow(c)
          /\ next' = next + 1
          /\ last' = Call("emplace", c, size(c), "bad_alloc", next, <<>>)
          /\ UNCHANGED <<pointers, owned, appended>>
    /\ UNCHANGED <<reserved, alive, dels, held, aliases>>

\* clear() that deletes the instances but keeps the pointers
clearKeepsPointers(c) ==
    /\ alive[c]
    /\ dels' = DeleteAll(dels, pointers[c])
    /\ last' = Call("clear", c, 0, "ok", NULL, <<>>)
    /\ UNCHANGED <<pointers, appended, reserved, alive, next, held, aliases, owned>>

\* void clear(): delete every pointer, then pointers.clear()
clear(c) ==
    /\ alive[c]
    /\ dels' = DeleteAll(dels, pointers[c])
    /\ pointers' = [pointers EXCEPT ![c] = <<>>]
    /\ appended' = [appended EXCEPT ![c] = <<>>]
    /\ last' = Call("clear", c, 0, "ok", NULL, <<>>)
    /\ UNCHANGED <<reserved, alive, next, held, aliases, owned>>

\* ~PointerArray(): clear(), then the vector releases its storage
Destroy(c) ==
    /\ alive[c]
    /\ dels' = DeleteAll(dels, pointers[c])
    /\ pointers' = [pointers EXCEPT ![c] = <<>>]
    /\ appended' = [appended EXCEPT ![c] = <<>>]
    /\ reserved' = [reserved EXCEPT ![c] = 0]
    /\ alive' = [alive EXCEPT ![c] = FALSE]
    /\ last' = Call("destroy", c, 0, "ok", NULL, <<>>)
    /\ UNCHANGED <<next, held, aliases, owned>>

\* a move constructor that copies the pointers and leaves the source as it was
MoveConstructKeepsSource(c, other) ==
    /\ ~alive[c]
    /\ alive[other]
    /\ c # other
    /\ alive' = [alive EXCEPT ![c] = TRUE]
    /\ pointers' = [pointers EXCEPT ![c] = pointers[other]]
    /\ reserved' = [reserved EXCEPT ![c] = reserved[other]]
    /\ appended' = [appended EXCEPT ![c] = appended[other]]
    /\ last' = Call("move_construct", c, other, "ok", NULL, <<>>)
    /\ UNCHANGED <<next, dels, held, aliases, owned>>

\* PointerArray(PointerArray&& other): pointers(std::move(other.pointers))
MoveConstruct(c, other) ==
    /\ ~alive[c]
    /\ alive[other]
    /\ c # other
    /\ alive' = [alive EXCEPT ![c] = TRUE]
    /\ pointers' = [pointers EXCEPT ![c] = pointers[other], ![other] = <<>>]
    /\ reserved' = [reserved EXCEPT ![c] = reserved[other], ![other] = 0]
    /\ appended' = [appended EXCEPT ![c] = appended[other], ![other] = <<>>]
    /\ last' = Call("move_construct", c, other, "ok", NULL, <<>>)
    /\ UNCHANGED <<next, dels, held, aliases, owned>>

\* PointerArray& operator=(PointerArray&& other): nothing on self-assignment,
\* else clear() and take other's vector, which is left empty
MoveAssign(c, other) ==
    /\ alive[c]
    /\ alive[other]
    /\ IF c # other
       THEN /\ dels' = DeleteAll(dels, pointers[c])
            /\ pointers' = [pointers EXCEPT
                              ![c] = pointers[other], ![other] = <<>>]
            /\ reserved' = [reserved EXCEPT
                              ![c] = reserved[other], ![other] = 0]
            /\ appended' = [appended EXCEPT
                              ![c] = appended[other], ![other] = <<>>]
       ELSE UNCHANGED <<dels, pointers, reserved, appended>>
    /\ last' = Call("move_assign", c, other, "ok", NULL, <<>>)
    /\ UNCHANGED <<alive, next, held, aliases, owned>>

\* T& operator[](size_t index), both forms
Subscript(c, index) ==
    /\ alive[c]
    /\ LET r == SubscriptResult(pointers[c], index)
       IN  last' = Call("subscript", c, index, r.res, r.ret, r.msg)
    /\ UNCHANGED <<pointers, reserved, alive, next, dels, held, aliases, owned, appended>>

\* T* get(size_t index) const
get(c, index) ==
    /\ alive[c]
    /\ last' = Call("get", c, index, "ok", GetResult(pointers[c], index), <<>>)
    /\ UNCHANGED <<pointers, reserved, alive, next, dels, held, aliases, owned, appended>>

Next ==
    \/ \E c \in Containers : Construct(c)
    \/ \E c \in Containers, n \in {0, MaxLen} : ConstructReserve(c, n)
    \/ CallerNew
    \/ \E c \in Containers, p \in Obj \cup {NULL} : add(c, p)
    \/ \E c \in Containers : emplace(c)
    \/ \E c \in Containers : clear(c)
    \/ \E c \in Containers : Destroy(c)
    \/ \E c, other \in Containers : MoveConstruct(c, other)
    \/ \E c, other \in Containers : MoveAssign(c, other)
    \/ \E c \in Containers, i \in Indices : Subscript(c, i)
    \/ \E c \in Containers, i \in Indices : get(c, i)

Spec == Init /\ [][Next]_vars

\* ------------------------------------------------- vocabulary of the claims
Slots == {<<c, k>> : c \in Containers, k \in 1..MaxLen}

Filled == {s \in Slots : alive[s[1]] /\ s[2] <= Len(pointers[s[1]])}

StoredAnywhere == {pointers[s[1]][s[2]] : s \in Filled}

\* live instances that no container stores and no caller holds
Leaked == {o \in Obj : Live(o) /\ o \notin held /\ o \notin StoredAnywhere}

ContainerFrame ==
    /\ pointers' = pointers
    /\ alive' = alive
    /\ dels' = dels
    /\ next' = next

Moves == {"move_construct", "move_assign"}

\* the decimal numbers written in a what() text, in order
IsDigit(t) == t \in {"0", "1", "2", "3", "4", "5", "6", "7", "8", "9"}

DigitValue(t) ==
    CASE t = "0" -> 0 [] t = "1" -> 1 [] t = "2" -> 2 [] t = "3" -> 3
      [] t = "4" -> 4 [] t = "5" -> 5 [] t = "6" -> 6 [] t = "7" -> 7
      [] t = "8" -> 8 [] t = "9" -> 9

RECURSIVE Scan(_, _, _, _)
Scan(msg, k, cur, acc) ==
    IF k > Len(msg)
    THEN IF cur >= 0 THEN Append(acc, cur) ELSE acc
    ELSE IF IsDigit(msg[k])
         THEN Scan(msg, k + 1,
                   (IF cur < 0 THEN 0 ELSE cur) * 10 + DigitValue(msg[k]), acc)
         ELSE Scan(msg, k + 1, -1, IF cur >= 0 THEN Append(acc, cur) ELSE acc)

NumbersIn(msg) == Scan(msg, 1, -1, <<>>)

\* ------------------------------------------------------------------ claims
\* C1: operator[](i) succeeds and returns the element at position i exactly
\* when i < size(); otherwise it throws out_of_range whose text carries the
\* index i and the size; the access changes neither size nor contents.
C1_SubscriptBounds ==
    [][last'.op = "subscript" =>
         LET c == last'.c
             i == last'.arg
         IN  /\ (last'.res = "ok") <=> (i < Len(pointers[c]))
             /\ last'.res = "ok" => last'.ret = pointers[c][i + 1]
             /\ last'.res # "ok" =>
                   /\ last'.res = "out_of_range"
                   /\ NumbersIn(last'.msg) = <<i, Len(pointers[c])>>
             /\ ContainerFrame]_vars

C1_Witness ==
    /\ last.op = "subscript"
    /\ last.res = "out_of_range"
    /\ last.arg = BigIndex
    /\ size(last.c) = 2
    /\ NumbersIn(last.msg) = <<BigIndex, 2>>

\* C2: in every container the number of live instances it stores equals
\* size(); once every container is empty or destroyed and the caller holds
\* nothing, as many instances were destroyed as were constructed.
C2_LiveEqualsSize ==
    /\ \A c \in Containers :
          alive[c] =>
             Cardinality({o \in Range(pointers[c]) : Live(o)}) = size(c)
    /\ (StoredAnywhere = {} /\ held = {}) =>
          \A o \in Obj : Allocated(o) => dels[o] >= 1

\* C3: every instance a container owns is deleted exactly once: never twice,
\* and once no container stores it any more it has been deleted.
C3_ReleasedExactlyOnce ==
    \A o \in owned :
       /\ dels[o] <= 1
       /\ o \notin StoredAnywhere => dels[o] = 1

\* C4: a move from A into a distinct B gives B the elements A held, in order,
\* leaves A empty and constructed, and deletes nothing A held unless B stored
\* it too; an emplace on the moved-from A that completes gives A size 1 and
\* leaves B alone.
C4_MoveTransfers ==
    [][/\ (last'.op \in Moves /\ last'.c # last'.arg) =>
            LET b == last'.c
                a == last'.arg
            IN  /\ pointers'[b] = pointers[a]
                /\ Len(pointers'[b]) = Len(pointers[a])
                /\ pointers'[a] = <<>>
                /\ alive'[a] /\ alive'[b]
                /\ \A o \in Obj :
                      (~alive[b] \/ o \notin Range(pointers[b])) =>
                         dels'[o] = dels[o]
       /\ (/\ last.op \in Moves /\ last.c # last.arg
           /\ last'.op = "emplace" /\ last'.c = last.arg /\ last'.res = "ok") =>
            /\ Len(pointers'[last.arg]) = 1
            /\ pointers'[last.c] = pointers[last.c]
            /\ dels' = dels]_vars

C4_Witness ==
    /\ last.op = "move_assign"
    /\ last.c # last.arg
    /\ pointers[last.c] = <<1, 2>>
    /\ pointers[last.arg] = <<>>
    /\ alive[last.arg]

\* C5: add(nullptr) throws invalid_argument in every state and leaves the
\* size and the stored elements as they were.
C5_NullRejected ==
    [][(last'.op = "add" /\ last'.arg = NULL) =>
          /\ last'.res = "invalid_argument"
          /\ ContainerFrame
          /\ owned' = owned]_vars

C5_Witness ==
    /\ last.op = "add"
    /\ last.arg = NULL
    /\ last.res = "invalid_argument"
    /\ size(last.c) >= 1

\* C6: after a failed emplace the size is what it was before the call and
\* the instance the call created, if any, is not left live and unowned.
C6_FailedEmplaceLeaksNothing ==
    (last.op = "emplace" /\ last.res # "ok") =>
       /\ size(last.c) = last.arg
       /\ last.ret # NULL => (~Live(last.ret) \/ last.ret \in owned)
       /\ Leaked = {}

\* C7: get(i) never throws; it returns nullptr exactly when i >= size() and
\* otherwise the instance operator[](i) refers to; it changes nothing.
C7_GetNeverThrows ==
    [][last'.op = "get" =>
         LET c == last'.c
             i == last'.arg
         IN  /\ last'.res = "ok"
             /\ (last'.ret = NULL) <=> (i >= Len(pointers[c]))
             /\ i < Len(pointers[c]) =>
                   /\ SubscriptResult(pointers[c], i).res = "ok"
                   /\ last'.ret = SubscriptResult(pointers[c], i).ret
             /\ ContainerFrame]_vars

C7_Witness ==
    /\ last.op = "get"
    /\ last.arg = 1
    /\ size(last.c) = 2
    /\ last.ret = pointers[last.c][2]
    /\ last.ret # NULL

\* C8: clear() leaves the container empty, and a clear() that directly
\* follows a clear() of the same container changes nothing and deletes
\* nothing.
C8_ClearIdempotent ==
    [][last'.op = "clear" =>
          /\ pointers'[last'.c] = <<>>
          /\ Len(pointers'[last'.c]) = 0
          /\ last'.again =>
                /\ ContainerFrame
                /\ reserved' = reserved
                /\ held' = held
                /\ owned' = owned]_vars

C8_Witness ==
    /\ last.op = "clear"
    /\ last.again
    /\ empty(last.c)
    /\ \E o \in Obj : dels[o] = 1

\* C9: no instance is stored in two slots, of one container or of two, and
\* every stored instance is live.
C9_UniquelyOwned ==
    /\ \A s, t \in Filled :
          s # t => pointers[s[1]][s[2]] # pointers[t[1]][t[2]]
    /\ \A o \in StoredAnywhere : Live(o)

\* C10: a successful add or emplace appends: the size grows by one, the new
\* instance is last, the earlier elements keep their places and the other
\* container is untouched; every vector lists its instances in the order
\* they were appended.
C10_AppendsAtEnd ==
    [][/\ (last'.op \in {"add", "emplace"} /\ last'.res = "ok") =>
            LET c == last'.c
                p == IF last'.op = "add" THEN last'.arg ELSE last'.ret
                n == Len(pointers[c])
            IN  /\ Len(pointers'[c]) = n + 1
                /\ pointers'[c][n + 1] = p
                /\ \A j \in 1..n : pointers'[c][j] = pointers[c][j]
                /\ \A d \in Containers \ {c} : pointers'[d] = pointers[d]
                /\ last'.op = "emplace" => p \notin StoredAnywhere
       /\ \A c \in Containers : pointers'[c] = appended'[c]]_vars

C10_Witness ==
    /\ last.op = "emplace"
    /\ last.res = "ok"
    /\ last.ret = 2
    /\ pointers[last.c] = <<1, 2>>
====
